---- MODULE Spec2Model ----
(***************************************************************************)
(* source_splitter: the node classifier (get_nodes), the containment       *)
(* partitioner (extract_nodes), the capability-layered parse pipeline      *)
(* (SSSourceFile .. SSInterfaceLanguageSourceFile), the language lookup     *)
(* with its fallback retry (get_class_for_file), the batch driver           *)
(* (process_file / process_directory) and the file splitters.               *)
(***************************************************************************)
EXTENDS Integers, Sequences, FiniteSets, TLC

\* ------------------------------------------------------------------ bounds
\* Length in bytes of the source file handed to the parser.
MaxByte == 3
\* Number of syntax nodes below the root the parser may return.
MaxNodes == 3
\* Number of classified nodes of a unit handed to a splitter.
MaxUnits == 2
\* Largest byte offset of the nodes handed to extract_nodes.
MaxSweepByte == 3
\* Number of directory entries the batch driver is given.
MaxFiles == 2
\* Number of syntax nodes below the root of a file of the batch.
MaxBatchNodes == 1

\* ------------------------------------------------------- ss_items.py tables
SSLANGUAGE_PYTHON == "python"
SSLANGUAGE_JS == "javascript"
SSLANGUAGE_C == "c"
SSLANGUAGE_CPP == "cpp"
SSLANGUAGE_JAVA == "java"
SSLANGUAGE_TS == "typescript"

\* Python's None.
None == "None"

\* Insertion order of the keys of the SSLanguageMappings dict.
LanguageOrder ==
    << SSLANGUAGE_PYTHON, SSLANGUAGE_JS, SSLANGUAGE_C,
       SSLANGUAGE_CPP, SSLANGUAGE_JAVA, SSLANGUAGE_TS >>

Languages == { LanguageOrder[i] : i \in DOMAIN LanguageOrder }

\* language -> (extensions, alternate language)
SSLanguageMappings ==
    [ l \in Languages |->
        CASE l = SSLANGUAGE_PYTHON -> [exts |-> {".py"}, alt |-> None]
          [] l = SSLANGUAGE_JS     -> [exts |-> {".js", ".jsx"}, alt |-> None]
          [] l = SSLANGUAGE_C      -> [exts |-> {".c", ".h"}, alt |-> None]
          [] l = SSLANGUAGE_CPP    -> [exts |-> {".cpp", ".h", ".hpp"}, alt |-> SSLANGUAGE_C]
          [] l = SSLANGUAGE_JAVA   -> [exts |-> {".java"}, alt |-> None]
          [] OTHER                 -> [exts |-> {".ts", ".tsx"}, alt |-> SSLANGUAGE_JS] ]

TS_COMMENT_NODE_TYPES == {"comment", "comment_block", "comment_line"}
TS_IMPORT_NODE_TYPES ==
    {"import", "import_statement", "import_statement_block", "import_from_statement"}
TS_LITERAL_NODE_TYPES ==
    {"assignment", "string_literal", "numeric_literal", "const", "let"}
TS_FUNCTION_NODE_TYPES == {"function_definition", "function_declaration"}
TS_METHOD_NODE_TYPES == {"method_definition"}
TS_CLASS_NODE_TYPES == {"class_definition", "class_declaration"}
TS_INTERFACE_NODE_TYPES == {"interface_definition"}

\* ------------------------------------------------------ ss_languages.py table
\* language -> source file class
SSSFClassMappings ==
    [ l \in Languages |->
        CASE l = SSLANGUAGE_C      -> "SSCSourceFile"
          [] l = SSLANGUAGE_CPP    -> "SSCppSourceFile"
          [] l = SSLANGUAGE_JAVA   -> "SSJavaSourceFile"
          [] l = SSLANGUAGE_JS     -> "SSJavaScriptSourceFile"
          [] l = SSLANGUAGE_PYTHON -> "SSPythonSourceFile"
          [] OTHER                 -> "SSTypeScriptSourceFile" ]

\* The capability layer each language class derives from; SSSourceFile is
\* the Plain layer itself.
BaseLayer(cls) ==
    CASE cls = "SSSourceFile"           -> "Plain"
      [] cls = "SSCSourceFile"          -> "Function"
      [] cls = "SSCppSourceFile"        -> "Class"
      [] cls = "SSJavaSourceFile"       -> "Interface"
      [] cls = "SSJavaScriptSourceFile" -> "Class"
      [] cls = "SSPythonSourceFile"     -> "Class"
      [] OTHER                          -> "Interface"

\* isinstance(source_file, <layer class>)
IsInstance(cls, layer) ==
    CASE layer = "Plain"     -> TRUE
      [] layer = "Function"  -> BaseLayer(cls) \in {"Function", "Class", "Interface"}
      [] layer = "Class"     -> BaseLayer(cls) \in {"Class", "Interface"}
      [] OTHER               -> BaseLayer(cls) = "Interface"

\* ------------------------------------------------------------- variables
VARIABLES
    pc,         \* position of the batch driver / the library client
    remaining,  \* directory entries process_directory has still to visit
    visited,    \* entries process_file has been called on
    suffix,     \* filename.suffix of the file being processed
    rootOK,     \* languages under which the parser yields a root for this file
    tree,       \* the syntax nodes below the root, in document (pre-)order
    nodeCap,    \* the most nodes the parser returns in this run
    unit,       \* the Source Unit (an SS*SourceFile instance), or NoUnit
    calls,      \* what the most recent parse() invocation entered and ran
    last,       \* the operation that produced this state
    gcf,        \* how the last get_class_for_file call ended
    raised,     \* the exception that left the last operation, or None
    sp,         \* the Splitter Session (an SS*FileSplitter instance), or NoSplitter
    fs,         \* the files on disk: path -> content
    unitDir,    \* whether the directory the unit files go to exists
    writes,     \* the paths written by the last split_file call, in order
    splits,     \* split_file calls made on the session
    sweep       \* an extract_nodes call: its arguments, cursors and result

vars ==
    << pc, remaining, visited, suffix, rootOK, tree, nodeCap, unit, calls, last, gcf,
       raised, sp, fs, unitDir, writes, splits, sweep >>

driverVars == << remaining, visited, suffix, rootOK, tree, nodeCap, calls, gcf >>
splitVars == << sp, fs, unitDir, writes, splits >>

\* ---------------------------------------------------------- syntax tree
\* The root node: id 0, spanning the whole source.
RootId == 0
RootNode ==
    [id |-> RootId, type |-> "module", start_byte |-> 0, end_byte |-> MaxByte,
     parent |-> RootId]

NodeOf(i) == IF i = RootId THEN RootNode ELSE tree[i]

\* node.children, in order.
RECURSIVE ChildrenFrom(_, _)
ChildrenFrom(n, i) ==
    IF i > Len(tree) THEN << >>
    ELSE IF tree[i].parent = n.id /\ i # n.id
         THEN << tree[i] >> \o ChildrenFrom(n, i + 1)
         ELSE ChildrenFrom(n, i + 1)

Children(n) == ChildrenFrom(n, 1)

\* node.parent
Parent(n) == NodeOf(n.parent)


\* ------------------------------------------------- SSSourceFile helpers
\* Where a stable sort by start_byte puts x in the already sorted s:
\* behind every element whose key is not greater.
RECURSIVE InsertByStart(_, _)
InsertByStart(s, x) ==
    IF s = << >> THEN << x >>
    ELSE IF Head(s).start_byte <= x.start_byte
         THEN << Head(s) >> \o InsertByStart(Tail(s), x)
         ELSE << x >> \o s

\* nodes.sort(key=lambda node: node.start_byte)
RECURSIVE sort_nodes(_)
sort_nodes(nodes) ==
    IF nodes = << >> THEN << >>
    ELSE InsertByStart(sort_nodes(SubSeq(nodes, 1, Len(nodes) - 1)), nodes[Len(nodes)])

is_inside(inner_node, outer_node) ==
    /\ inner_node.start_byte >= outer_node.start_byte
    /\ inner_node.end_byte <= outer_node.end_byte

\* _walk_tree(node) of get_nodes: the nodes it appends to node_list, in order.
RECURSIVE WalkTree(_, _, _)
RECURSIVE WalkAll(_, _, _)
WalkTree(node, names, first_occurrence) ==
    IF node.type \in names
    THEN << node >> \o
         (IF first_occurrence THEN << >>
          ELSE WalkAll(Children(node), names, first_occurrence))
    ELSE WalkAll(Children(node), names, first_occurrence)

WalkAll(nodes, names, first_occurrence) ==
    IF nodes = << >> THEN << >>
    ELSE WalkTree(Head(nodes), names, first_occurrence)
         \o WalkAll(Tail(nodes), names, first_occurrence)

get_nodes(names, start_node, first_occurrence) ==
    sort_nodes(WalkAll(Children(start_node), names, first_occurrence))

\* ------------------------------------------------------- extract_nodes
\* The cursors and the two result lists of the sweep (indices from 1).
SweepStart ==
    [parent_index |-> 1, child_index |-> 1,
     return_nodes |-> << >>, remaining_nodes |-> << >>]

SweepRunning(child_nodes, parent_nodes, st) ==
    /\ st.parent_index <= Len(parent_nodes)
    /\ st.child_index <= Len(child_nodes)

\* One iteration of the while loop that hands on the container where the
\* candidate is not inside it.
SweepStep_keeps_container(child_nodes, parent_nodes, st) ==
    LET parent_element == parent_nodes[st.parent_index]
        child_element == child_nodes[st.child_index]
    IN  IF is_inside(child_element, parent_element)
        THEN [st EXCEPT !.return_nodes = Append(@, child_element),
                        !.child_index = @ + 1]
        ELSE IF child_element.start_byte > parent_element.end_byte
        THEN [st EXCEPT !.parent_index = @ + 1]
        ELSE [st EXCEPT !.remaining_nodes = Append(@, parent_element),
                        !.child_index = @ + 1]

\* One iteration of the while loop.
SweepStep(child_nodes, parent_nodes, st) ==
    LET parent_element == parent_nodes[st.parent_index]
        child_element == child_nodes[st.child_index]
    IN  IF is_inside(child_element, parent_element)
        THEN [st EXCEPT !.return_nodes = Append(@, child_element),
                        !.child_index = @ + 1]
        ELSE IF child_element.start_byte > parent_element.end_byte
        THEN [st EXCEPT !.parent_index = @ + 1]
        ELSE [st EXCEPT !.remaining_nodes = Append(@, child_element),
                        !.child_index = @ + 1]

\* extract_nodes returning without the extend of its last statement.
SweepFinish_without_extend(child_nodes, st) ==
    << st.return_nodes, st.remaining_nodes >>

\* remaining_nodes.extend(child_nodes[child_index:]); return both lists.
SweepFinish(child_nodes, st) ==
    << st.return_nodes,
       st.remaining_nodes \o SubSeq(child_nodes, st.child_index, Len(child_nodes)) >>

RECURSIVE SweepLoop(_, _, _)
SweepLoop(child_nodes, parent_nodes, st) ==
    IF SweepRunning(child_nodes, parent_nodes, st)
    THEN SweepLoop(child_nodes, parent_nodes, SweepStep(child_nodes, parent_nodes, st))
    ELSE st

extract_nodes(child_nodes, parent_nodes) ==
    SweepFinish(child_nodes, SweepLoop(child_nodes, parent_nodes, SweepStart))


\* ------------------------------------------------ the capability layers
NoUnit == [cls |-> None]

\* The attributes the __init__ chain sets before parse() is called.
NewUnit(cls, language) ==
    [cls |-> cls, language |-> language, tree_root |-> FALSE,
     literals |-> << >>, comments |-> << >>, imports |-> << >>,
     import_format |-> "import ./{filename}",
     import_directory_specifier |-> "/", import_suffix |-> "",
     functions |-> << >>, subfunctions |-> << >>,
     classes |-> << >>, methods |-> << >>, interfaces |-> << >>]

\* What a parse() call hands back: the unit as it leaves it, what it entered
\* and ran, and the exception it raised (None: it returned).
Outcome(u, c, e) == [u |-> u, calls |-> c, err |-> e]

\* `suffix not in SSLanguageMappings[alternate_language]`: the right-hand side
\* is the (extensions, alternate) tuple, so only its two elements are compared
\* with the suffix, and a str never equals the set of extensions.
SuffixInMappingTuple(sfx, language) == sfx = SSLanguageMappings[language].alt

\* The extension check at the head of SSSourceFile.parse.
SuffixRejected(sfx, language) ==
    /\ sfx \notin SSLanguageMappings[language].exts
    /\ \/ SSLanguageMappings[language].alt = None
       \/ ~SuffixInMappingTuple(sfx, SSLanguageMappings[language].alt)

\* SSSourceFile.parse, were it to classify with first_occurrence False.
SSSourceFile_parse_collect_all(u) ==
    IF u.language = None
    THEN Outcome(u, << "Plain.parse" >>, "ValueError")
    ELSE IF SuffixRejected(suffix, u.language)
    THEN Outcome(u, << "Plain.parse" >>, "ValueError")
    ELSE IF u.language \notin rootOK
    THEN Outcome(u, << "Plain.parse" >>, "SSParseFailed")
    ELSE Outcome(
            [u EXCEPT !.tree_root = TRUE,
                      !.imports = get_nodes(TS_IMPORT_NODE_TYPES, RootNode, FALSE),
                      !.literals = get_nodes(TS_LITERAL_NODE_TYPES, RootNode, FALSE),
                      !.comments = get_nodes(TS_COMMENT_NODE_TYPES, RootNode, FALSE)],
            << "Plain.parse", "classify imports", "classify literals",
               "classify comments" >>,
            None)

\* SSSourceFile.parse
SSSourceFile_parse(u) ==
    IF u.language = None
    THEN Outcome(u, << "Plain.parse" >>, "ValueError")
    ELSE IF SuffixRejected(suffix, u.language)
    THEN Outcome(u, << "Plain.parse" >>, "ValueError")
    ELSE IF u.language \notin rootOK
    THEN Outcome(u, << "Plain.parse" >>, "SSParseFailed")
    ELSE Outcome(
            [u EXCEPT !.tree_root = TRUE,
                      !.imports = get_nodes(TS_IMPORT_NODE_TYPES, RootNode, TRUE),
                      !.literals = get_nodes(TS_LITERAL_NODE_TYPES, RootNode, TRUE),
                      !.comments = get_nodes(TS_COMMENT_NODE_TYPES, RootNode, TRUE)],
            << "Plain.parse", "classify imports", "classify literals",
               "classify comments" >>,
            None)

\* for func in self.functions: self.subfunctions += self.get_nodes(..., func)
RECURSIVE CollectSubfunctions(_, _)
CollectSubfunctions(subfunctions, functions) ==
    IF functions = << >> THEN subfunctions
    ELSE CollectSubfunctions(
            subfunctions \o get_nodes(TS_FUNCTION_NODE_TYPES, Head(functions), TRUE),
            Tail(functions))

\* SSFunctionLanguageSourceFile.parse behind super().parse(), which ended as r.
FunctionLayer(r) ==
    IF r.err # None
    THEN Outcome(r.u, << "Function.parse" >> \o r.calls, r.err)
    ELSE LET functions == get_nodes(TS_FUNCTION_NODE_TYPES, RootNode, TRUE) IN
         Outcome(
            [r.u EXCEPT
                !.functions = functions,
                !.subfunctions = CollectSubfunctions(r.u.subfunctions, functions),
                !.literals = extract_nodes(r.u.literals, functions)[2]],
            << "Function.parse" >> \o r.calls
                \o << "classify functions", "classify subfunctions", "refine literals" >>,
            None)

\* SSFunctionLanguageSourceFile.parse
SSFunctionLanguageSourceFile_parse(u) ==
    IF u.functions # << >> \/ u.subfunctions # << >>
    THEN Outcome(u, << "Function.parse" >>, None)
    ELSE FunctionLayer(SSSourceFile_parse(u))

\* The same assignment, were it to leave self.functions as it was.
MethodsAndFunctions_keeps_functions(u, methods, classes) ==
    IF methods = << >>
    THEN << extract_nodes(u.functions, classes)[1], u.functions >>
    ELSE << methods, u.functions >>

\* (self.methods, self.functions) = self.extract_nodes(self.functions, self.classes)
\* when no node of a method type was found.
MethodsAndFunctions(u, methods, classes) ==
    IF methods = << >>
    THEN extract_nodes(u.functions, classes)
    ELSE << methods, u.functions >>

\* SSClassLanguageSourceFile.parse behind super().parse(), which ended as r.
ClassLayer(r) ==
    IF r.err # None
    THEN Outcome(r.u, << "Class.parse" >> \o r.calls, r.err)
    ELSE LET classes == get_nodes(TS_CLASS_NODE_TYPES, RootNode, TRUE)
             methods == get_nodes(TS_METHOD_NODE_TYPES, RootNode, TRUE)
             split == MethodsAndFunctions(r.u, methods, classes)
         IN Outcome(
                [r.u EXCEPT
                    !.classes = classes,
                    !.methods = split[1],
                    !.functions = split[2],
                    !.literals = extract_nodes(r.u.literals, classes)[2]],
                << "Class.parse" >> \o r.calls
                    \o << "classify classes", "classify methods" >>
                    \o (IF methods = << >> THEN << "partition functions" >> ELSE << >>)
                    \o << "refine literals" >>,
                None)

\* SSClassLanguageSourceFile.parse without the test of its own lists.
SSClassLanguageSourceFile_parse_unguarded(u) ==
    ClassLayer(SSFunctionLanguageSourceFile_parse(u))

\* SSClassLanguageSourceFile.parse
SSClassLanguageSourceFile_parse(u) ==
    IF u.methods # << >> \/ u.classes # << >>
    THEN Outcome(u, << "Class.parse" >>, None)
    ELSE ClassLayer(SSFunctionLanguageSourceFile_parse(u))

\* SSInterfaceLanguageSourceFile.parse behind super().parse(), which ended as r.
InterfaceLayer(r) ==
    IF r.err # None
    THEN Outcome(r.u, << "Interface.parse" >> \o r.calls, r.err)
    ELSE Outcome(
            [r.u EXCEPT
                !.interfaces = get_nodes(TS_INTERFACE_NODE_TYPES, RootNode, TRUE)],
            << "Interface.parse" >> \o r.calls \o << "classify interfaces" >>,
            None)

\* SSInterfaceLanguageSourceFile.parse
SSInterfaceLanguageSourceFile_parse(u) ==
    IF u.interfaces # << >>
    THEN Outcome(u, << "Interface.parse" >>, None)
    ELSE InterfaceLayer(SSClassLanguageSourceFile_parse(u))

\* self.parse(): the parse of the unit's own (most derived) layer.
parse(u) ==
    CASE BaseLayer(u.cls) = "Plain"     -> SSSourceFile_parse(u)
      [] BaseLayer(u.cls) = "Function"  -> SSFunctionLanguageSourceFile_parse(u)
      [] BaseLayer(u.cls) = "Class"     -> SSClassLanguageSourceFile_parse(u)
      [] OTHER                          -> SSInterfaceLanguageSourceFile_parse(u)

\* The loop of SSPythonSourceFile._extract_comments over stmt_strs.
RECURSIVE AppendDocstrings(_, _)
AppendDocstrings(comments, stmt_strs) ==
    IF stmt_strs = << >> THEN comments
    ELSE AppendDocstrings(
            IF Parent(Head(stmt_strs)).type = "expression_statement"
            THEN Append(comments, Head(stmt_strs))
            ELSE comments,
            Tail(stmt_strs))

\* SSPythonSourceFile._extract_comments
extract_comments(u) ==
    [u EXCEPT !.comments = AppendDocstrings(@, get_nodes({"string"}, RootNode, TRUE))]

\* What the language class's own __init__ does behind super().__init__().
LanguageInit(r) ==
    IF r.err # None THEN r
    ELSE IF r.u.cls = "SSPythonSourceFile"
    THEN Outcome(
            extract_comments(
                [r.u EXCEPT !.import_format = "import .%s",
                            !.import_directory_specifier = "."]),
            r.calls \o << "extract comments" >>, None)
    ELSE IF r.u.cls = "SSCppSourceFile"
    THEN Outcome([r.u EXCEPT !.import_format = "include \"%s\"",
                             !.import_suffix = ".hpp"], r.calls, None)
    ELSE IF r.u.cls = "SSCSourceFile"
    THEN Outcome([r.u EXCEPT !.import_format = "include \"%s\"",
                             !.import_suffix = ".h"], r.calls, None)
    ELSE r

\* language_type(filename) from the parser's call on: the rest of parse(),
\* called at the end of the __init__ chain that made u, and then the
\* language class's own __init__.
Instantiate(u) == LanguageInit(parse(u))

\* ------------------------------------------------------ the parser's output
\* One node type of every type set the unit's pipeline consults, and "block"
\* for every type none of them holds (all such types are treated alike).
\* Method nodes come from the grammars with a method node of that name: of the
\* languages parsed here, TypeScript's.
GrammarTypes(cls) ==
    {"import_statement", "assignment", "comment", "function_definition", "block"}
    \cup (IF IsInstance(cls, "Class") THEN {"class_definition"} ELSE {})
    \cup (IF cls = "SSTypeScriptSourceFile" THEN {"method_definition"} ELSE {})
    \cup (IF IsInstance(cls, "Interface") THEN {"interface_definition"} ELSE {})
    \cup (IF cls = "SSPythonSourceFile"
          THEN {"string", "expression_statement"} ELSE {})

\* The last node and its ancestors: where document order lets the next node go.
RECURSIVE Ancestors(_)
Ancestors(i) ==
    IF i = RootId THEN {RootId} ELSE {i} \cup Ancestors(tree[i].parent)

\* end_byte of the last child of node p so far (its own start when it has none).
LastChildEnd(p) ==
    LET kids == Children(NodeOf(p)) IN
    IF kids = << >> THEN NodeOf(p).start_byte ELSE kids[Len(kids)].end_byte

\* The nodes a child can fill from first byte to last: the root and the
\* wrappers. Every other node has tokens of its own beside its children, and
\* starts with one (a keyword, a name, a quote): a child that starts where
\* such a node starts is that token, a node of no consulted type.
Wrappers == {"block", "expression_statement"}

FillsParent(p, s, e) ==
    s = NodeOf(p).start_byte /\ e = NodeOf(p).end_byte

StartsParent(p, t, s) ==
    s = NodeOf(p).start_byte /\ t # "block"

\* parser.parse(self.source_code) yields one more node: a child of p, inside
\* p's byte range and behind p's earlier children. A comment has no children.
ParserNode(p, t, s, e) ==
    /\ pc \in {"parser", "parser_alt"}
    /\ Len(tree) < nodeCap
    /\ p \in Ancestors(Len(tree))
    /\ s < e
    /\ s >= LastChildEnd(p)
    /\ e <= NodeOf(p).end_byte
    /\ FillsParent(p, s, e) \/ StartsParent(p, t, s)
          => p = RootId \/ NodeOf(p).type \in Wrappers
    /\ NodeOf(p).type # "comment"
    /\ tree' = Append(tree,
                 [id |-> Len(tree) + 1, type |-> t, start_byte |-> s,
                  end_byte |-> e, parent |-> p])
    /\ last' = "parser"
    /\ UNCHANGED << pc, remaining, visited, suffix, rootOK, nodeCap, unit, calls, gcf,
                    raised >>
    /\ UNCHANGED << splitVars, sweep >>

\* ------------------------------------------------------------ the driver
\* The suffixes of the files the driver is given.
InputSuffixes == {".py", ".c", ".h", ".hpp", ".ts", ".xyz"}

RECURSIVE KeyFrom(_, _)
KeyFrom(value, i) ==
    IF i > Len(LanguageOrder) THEN None
    ELSE IF value \in SSLanguageMappings[LanguageOrder[i]].exts THEN LanguageOrder[i]
    ELSE KeyFrom(value, i + 1)

get_key_from_value(value) == IF value = None THEN None ELSE KeyFrom(value, 1)

\* The except clauses of process_file.
Caught(exc) == exc \in {"OSError", "SSNoLanguageFound", "SSParseFailed"}

\* process_file is left with exception exc (None: it ran to its end); a caught
\* exception is printed and process_directory goes on to the next entry.
LeaveFile(exc, left) ==
    IF exc = None \/ Caught(exc)
    THEN /\ pc' = IF left = 0 THEN "exit" ELSE "idle"
         /\ raised' = None
    ELSE /\ pc' = "crashed"
         /\ raised' = exc

\* process_file(file_path, output_dir) up to the parser's call: the language
\* lookup of get_class_for_file, the read of the file, the extension check,
\* and the fallback retry when the primary parser yields no root. ok holds
\* the languages whose parser yields a root for this file; the alternate
\* language's parser is only asked after the primary's has failed.
StartFile(sfx, readable, ok) ==
    /\ pc = "idle"
    /\ remaining > 0
    /\ get_key_from_value(sfx) \in ok => ok = {get_key_from_value(sfx)}
    /\ remaining' = remaining - 1
    /\ visited' = visited + 1
    /\ suffix' = sfx
    /\ rootOK' = ok
    /\ tree' = << >>
    /\ calls' = << >>
    /\ last' = "process_file"
    /\ UNCHANGED << nodeCap, splitVars, sweep >>
    /\ LET language == get_key_from_value(sfx)
           alternate_language ==
               IF language = None THEN None ELSE SSLanguageMappings[language].alt
       IN
        IF language = None
        THEN /\ gcf' = "SSNoLanguageFound"
             /\ unit' = NoUnit
             /\ LeaveFile("SSNoLanguageFound", remaining')
        ELSE IF ~readable
        THEN /\ gcf' = "OSError"
             /\ unit' = NoUnit
             /\ LeaveFile("OSError", remaining')
        ELSE IF language \in ok
        THEN /\ gcf' = "-"
             /\ unit' = NewUnit(SSSFClassMappings[language], language)
             /\ pc' = "parser"
             /\ raised' = None
        ELSE IF alternate_language = None
        THEN /\ gcf' = "SSParseFailed"
             /\ unit' = NoUnit
             /\ LeaveFile("SSParseFailed", remaining')
        ELSE IF SuffixRejected(sfx, alternate_language)
        THEN /\ gcf' = "ValueError"
             /\ unit' = NoUnit
             /\ LeaveFile("ValueError", remaining')
        ELSE IF alternate_language \notin ok
        THEN /\ gcf' = "SSParseFailed"
             /\ unit' = NoUnit
             /\ LeaveFile("SSParseFailed", remaining')
        ELSE /\ gcf' = "-"
             /\ unit' = NewUnit(SSSFClassMappings[alternate_language], alternate_language)
             /\ pc' = "parser_alt"
             /\ raised' = None

\* How get_class_for_file ends once the language class is instantiated with
\* outcome r: after a fallback retry that succeeded (position "parser_alt")
\* the except clause still ends in `raise e`.
EndOfLookup(r, position) ==
    IF r.err # None THEN r.err
    ELSE IF position = "parser_alt" THEN "SSParseFailed"
    ELSE None

ConstructAs(r, exc) ==
    /\ calls' = r.calls
    /\ unit' = r.u
    /\ gcf' = IF exc = None THEN "returned" ELSE exc
    /\ IF exc = None
       THEN pc' = "parsed" /\ raised' = None
       ELSE LeaveFile(exc, remaining)

\* The parser has returned its root: the rest of the __init__ chain, and the
\* end of get_class_for_file.
Construct ==
    /\ pc \in {"parser", "parser_alt"}
    /\ last' = "construct"
    /\ ConstructAs(Instantiate(unit), EndOfLookup(Instantiate(unit), pc))
    /\ UNCHANGED << remaining, visited, suffix, rootOK, tree, nodeCap >>
    /\ UNCHANGED << splitVars, sweep >>

ReparseAs(r) ==
    /\ r.err = None
    /\ unit' = r.u
    /\ calls' = r.calls

\* A client calls parse() again on the constructed unit.
Reparse ==
    /\ pc = "parsed"
    /\ last' = "parse"
    /\ ReparseAs(parse(unit))
    /\ UNCHANGED << pc, remaining, visited, suffix, rootOK, tree, nodeCap, gcf, raised >>
    /\ UNCHANGED << splitVars, sweep >>

\* ------------------------------------------------------------ the splitters
NoSplitter == [cls |-> None]

SplitterClasses ==
    {"SSFileSplitter", "SSFunctionFileSplitter", "SSClassFileSplitter",
     "SSInterfaceFileSplitter"}

\* The source file layer a splitter class is written for.
SplitterLayer(cls) ==
    CASE cls = "SSFileSplitter"          -> "Plain"
      [] cls = "SSFunctionFileSplitter"  -> "Function"
      [] cls = "SSClassFileSplitter"     -> "Class"
      [] OTHER                           -> "Interface"

\* self.source_code[start_byte : end_byte]; each byte of the source is named
\* by its offset.
SourceSlice(start_byte, end_byte) ==
    [i \in 1..(end_byte - start_byte) |-> start_byte + i - 1]

\* print_source(node)
print_source(node) == SourceSlice(node.start_byte, node.end_byte)

\* get_node_name(node): the text of the node's first child, None without one.
get_node_name(node) ==
    IF Children(node) = << >> THEN None ELSE print_source(Children(node)[1])

\* real_file_name of _write_item_file: under the destination in
\* subdirectory mode, relative and "_"-prefixed otherwise.
\* A file name: the role name of an aggregate ("imports", "literals",
\* "main"), or the text a named unit is called by.
RoleName(item_name) == [role |-> item_name, text |-> << >>]
UnitName(text) == [role |-> "", text |-> text]

real_file_name(use_subdirectories, node_name) ==
    IF use_subdirectories
    THEN [dir |-> "destination/basename", prefix |-> "", name |-> node_name]
    ELSE [dir |-> "basename", prefix |-> "_", name |-> node_name]

\* append_file_name of _write_item_file.
append_file_name(use_subdirectories, node_name) ==
    IF use_subdirectories
    THEN [dir |-> "basename", prefix |-> "", name |-> node_name]
    ELSE [dir |-> "", prefix |-> "", name |-> node_name]

\* self.main_file: the source file's name under the destination, its suffix
\* replaced by the unit's import_suffix.
main_file == [dir |-> "destination", prefix |-> "", name |-> RoleName("main")]

\* With an empty import_suffix the main file is destination/basename, the
\* directory the unit files go to in subdirectory mode: where that directory
\* is there, main_file.write_text raises IsADirectoryError, an OSError.
MainFileIsDirectory(s, u) ==
    s.use_subdirectories /\ unitDir /\ u.import_suffix = ""

\* path.write_text(content)
WriteText(files, path, content) ==
    [p \in DOMAIN files \cup {path} |-> IF p = path THEN content ELSE files[p]]

\* import_format.format(filename=path): only a template with a {filename}
\* field takes the path. The two str.replace calls that follow drop their
\* results, so the text is written as formatted.
Render(import_format, path) ==
    IF import_format = "import ./{filename}"
    THEN [text |-> "import ./", filename |-> path]
    ELSE [text |-> import_format, filename |-> None]

\* The running state of a split_file call.
SplitState(files, import_list) ==
    [fs |-> files, import_list |-> import_list, writes |-> << >>, err |-> None]

\* The for loop of _write_item_file.
RECURSIVE WriteItemLoop(_, _, _, _)
WriteItemLoop(st, items, item_name, use_subdirectories) ==
    IF items = << >> \/ st.err # None THEN st
    ELSE LET item == Head(items)
             missing == item_name = None /\ Children(item) = << >>
             node_name == IF item_name # None THEN RoleName(item_name)
                          ELSE IF missing THEN UnitName(<< >>)
                          ELSE UnitName(get_node_name(item))
             path == real_file_name(use_subdirectories, node_name)
         IN  IF missing
             THEN [st EXCEPT !.err = "ValueError(no node name)"]
             ELSE IF item_name = None /\ path \in DOMAIN st.fs
             THEN [st EXCEPT !.err = "ValueError(already exists)"]
             ELSE IF ~unitDir
             THEN [st EXCEPT !.err = "OSError"]
             ELSE WriteItemLoop(
                    [st EXCEPT
                        !.fs = WriteText(@, path, print_source(item)),
                        !.writes = Append(@, path),
                        !.import_list =
                            Append(@, append_file_name(use_subdirectories, node_name))],
                    Tail(items), item_name, use_subdirectories)

\* SSFileSplitter._write_item_file
write_item_file(st, s, items, item_name) ==
    IF st.err # None THEN st
    ELSE IF s.destination_directory = None
    THEN [st EXCEPT !.err = "ValueError(no destination)"]
    ELSE WriteItemLoop(st, items, item_name, s.use_subdirectories)

\* The while loop of _write_main_import_file: every statement is written
\* with write_text, which replaces what the file held.
RECURSIVE WriteMainLoop(_, _, _)
WriteMainLoop(st, import_format, is_directory) ==
    IF st.import_list = << >> THEN st
    ELSE IF is_directory
    THEN [st EXCEPT !.import_list = Tail(@), !.err = "OSError"]
    ELSE WriteMainLoop(
            [st EXCEPT
                !.import_list = Tail(@),
                !.fs = WriteText(@, main_file,
                                 << Render(import_format, Head(st.import_list)) >>),
                !.writes = Append(@, main_file)],
            import_format, is_directory)

\* SSFileSplitter._write_main_import_file
write_main_import_file(st, s, u) ==
    IF st.err # None THEN st
    ELSE IF s.destination_directory = None
    THEN [st EXCEPT !.err = "ValueError(no main file)"]
    ELSE WriteMainLoop(st, u.import_format, MainFileIsDirectory(s, u))

\* SSFileSplitter.split_file
SSFileSplitter_split_file(st, s, u) ==
    write_main_import_file(
        write_item_file(
            write_item_file(st, s, u.imports, "imports"),
            s, u.literals, "literals"),
        s, u)

\* SSFunctionFileSplitter.split_file
SSFunctionFileSplitter_split_file(st, s, u) ==
    write_main_import_file(
        write_item_file(SSFileSplitter_split_file(st, s, u), s, u.functions, None),
        s, u)

\* SSClassFileSplitter.split_file
SSClassFileSplitter_split_file(st, s, u) ==
    write_main_import_file(
        write_item_file(SSFunctionFileSplitter_split_file(st, s, u), s, u.classes, None),
        s, u)

\* SSInterfaceFileSplitter.split_file
SSInterfaceFileSplitter_split_file(st, s, u) ==
    write_main_import_file(
        write_item_file(SSClassFileSplitter_split_file(st, s, u), s, u.classes, None),
        s, u)

\* splitter.split_file()
split_file(st, s, u) ==
    CASE s.cls = "SSFileSplitter"          -> SSFileSplitter_split_file(st, s, u)
      [] s.cls = "SSFunctionFileSplitter"  -> SSFunctionFileSplitter_split_file(st, s, u)
      [] s.cls = "SSClassFileSplitter"     -> SSClassFileSplitter_split_file(st, s, u)
      [] OTHER                             -> SSInterfaceFileSplitter_split_file(st, s, u)

\* The constructor of a splitter class. destination is "dir", "not a dir" or
\* None. A derived class passes self._sf (self._sff, self._sfc) up before
\* anything has set it: AttributeError, unless the instance came with these
\* attributes already bound (bound), which instantiating the class never does.
SplitterInit(cls, destination, bound) ==
    IF cls # "SSFileSplitter" /\ ~bound
    THEN [s |-> NoSplitter, err |-> "AttributeError"]
    ELSE IF destination = "not a dir"
    THEN [s |-> NoSplitter, err |-> "ValueError(destination)"]
    ELSE [s |-> [cls |-> cls, use_subdirectories |-> FALSE,
                 destination_directory |-> destination, import_list |-> << >>],
          err |-> None]

\* get_file_splitter: the class its isinstance chain picks (None: it raises
\* SSNoLanguageFound).
get_file_splitter(source_cls) ==
    IF IsInstance(source_cls, "Function") THEN "SSFunctionFileSplitter"
    ELSE IF IsInstance(source_cls, "Class") THEN "SSClassFileSplitter"
    ELSE IF IsInstance(source_cls, "Interface") THEN "SSInterfaceFileSplitter"
    ELSE None

\* process_file: splitter = get_file_splitter(file_instance, output_dir)
GetFileSplitter(destination) ==
    /\ pc = "parsed"
    /\ last' = "get_file_splitter"
    /\ LET cls == get_file_splitter(unit.cls)
           r == IF cls = None
                THEN [s |-> NoSplitter, err |-> "SSNoLanguageFound"]
                ELSE SplitterInit(cls, destination, FALSE)
       IN /\ sp' = r.s
          /\ IF r.err = None
             THEN pc' = "split" /\ raised' = None
             ELSE LeaveFile(r.err, remaining)
    /\ UNCHANGED << sweep, driverVars, unit, fs, unitDir, writes, splits >>

\* A client instantiates a splitter class on the unit itself and picks the
\* layout (the use_subdirectories setter).
NewSplitter(cls, destination, bound, use_subdirectories) ==
    /\ pc = "parsed"
    /\ IsInstance(unit.cls, SplitterLayer(cls))
    /\ last' = "new splitter"
    /\ LET r == SplitterInit(cls, destination, bound) IN
        /\ raised' = r.err
        /\ IF r.err = None
           THEN /\ sp' = [r.s EXCEPT !.use_subdirectories = use_subdirectories]
                /\ pc' = "client"
           ELSE /\ sp' = NoSplitter
                /\ pc' = "client failed"
    /\ UNCHANGED << sweep, driverVars, unit, fs, unitDir, writes, splits >>

\* Number of split_file calls made on one session.
MaxSplits == 2

\* splitter.split_file(), by process_file or by the client.
SplitFile ==
    /\ pc \in {"split", "client"}
    /\ splits < MaxSplits
    /\ splits' = splits + 1
    /\ last' = "split_file"
    /\ LET r == split_file(SplitState(fs, sp.import_list), sp, unit) IN
        /\ fs' = r.fs
        /\ sp' = [sp EXCEPT !.import_list = r.import_list]
        /\ writes' = r.writes
        /\ IF pc = "split"
           THEN LeaveFile(r.err, remaining)
           ELSE pc' = pc /\ raised' = r.err
    /\ UNCHANGED << sweep, driverVars, unit, unitDir >>



\* ------------------------------------------------- the batch driver's runs
NoFiles == [p \in {} |-> << >>]

\* The languages get_class_for_file may ask the parser about for a suffix.
LanguagesTried(sfx) ==
    LET language == get_key_from_value(sfx) IN
    IF language = None THEN {}
    ELSE {language} \cup ({SSLanguageMappings[language].alt} \ {None})

NoSweep == [phase |-> None]

\* No splitter session yet, nothing on disk, no extract_nodes call of its own.
NoSession ==
    /\ sp = NoSplitter
    /\ fs = NoFiles
    /\ unitDir = TRUE
    /\ writes = << >>
    /\ splits = 0
    /\ sweep = NoSweep

\* main() on a directory of MaxFiles entries.
Init ==
    /\ pc = "idle"
    /\ remaining = MaxFiles
    /\ visited = 0
    /\ suffix = None
    /\ rootOK = {}
    /\ tree = << >>
    /\ nodeCap = MaxBatchNodes
    /\ unit = NoUnit
    /\ calls = << >>
    /\ last = "init"
    /\ gcf = "-"
    /\ raised = None
    /\ NoSession

StartFileStep ==
    \E sfx \in InputSuffixes, readable \in BOOLEAN :
        \E ok \in SUBSET LanguagesTried(sfx) : StartFile(sfx, readable, ok)

ParserStep ==
    \E p \in 0..nodeCap, t \in GrammarTypes(unit.cls),
       s \in 0..MaxByte, e \in 0..MaxByte : ParserNode(p, t, s, e)

GetFileSplitterStep ==
    \E destination \in {"dir", "not a dir"} : GetFileSplitter(destination)

Next ==
    \/ StartFileStep
    \/ ParserStep
    \/ Construct
    \/ GetFileSplitterStep

Spec == Init /\ [][Next]_vars

\* ------------------------------------------ a client parsing one file
\* The suffixes of the files a client hands to a language class.
ParsedSuffixes == {".py", ".c", ".hpp", ".ts"}

\* The classes a client instantiates for a file of a language: the one
\* SSSFClassMappings names, or the Plain layer's with the language named.
ClientClasses(language) == {SSSFClassMappings[language], "SSSourceFile"}

\* language_type(filename) has reached the parser's call.
InitParse ==
    /\ pc = "parser"
    /\ remaining = 0
    /\ visited = 0
    /\ suffix \in ParsedSuffixes
    /\ rootOK = {get_key_from_value(suffix)}
    /\ tree = << >>
    /\ nodeCap = MaxNodes
    /\ \E cls \in ClientClasses(get_key_from_value(suffix)) :
         unit = NewUnit(cls, get_key_from_value(suffix))
    /\ calls = << >>
    /\ last = "init"
    /\ gcf = "-"
    /\ raised = None
    /\ NoSession

NextParse ==
    \/ ParserStep
    \/ Construct
    \/ Reparse

ParseSpec == InitParse /\ [][NextParse]_vars


\* --------------------------------------------- a client splitting one unit
\* What the file holds at each byte: an import, a literal, or a function,
\* class or interface, which has a first child (its name) or none.
UnitKinds(cls) ==
    {[type |-> "import_statement", named |-> FALSE],
     [type |-> "assignment", named |-> FALSE]}
    \cup [type : {"function_definition"}, named : BOOLEAN]
    \cup (IF IsInstance(cls, "Class")
          THEN [type : {"class_definition"}, named : BOOLEAN] ELSE {})
    \cup (IF IsInstance(cls, "Interface")
          THEN [type : {"interface_definition"}, named : BOOLEAN] ELSE {})

\* The parser's tree for such a file: the k-th top-level node spans two
\* bytes, the first of them its first child when it has one.
RECURSIVE FlatTree(_, _, _)
FlatTree(kinds, k, nodes) ==
    IF k > Len(kinds) THEN nodes
    ELSE LET id == Len(nodes) + 1
             node == [id |-> id, type |-> kinds[k].type, start_byte |-> 2 * k - 2,
                      end_byte |-> 2 * k, parent |-> RootId]
             child == [id |-> id + 1, type |-> "identifier", start_byte |-> 2 * k - 2,
                       end_byte |-> 2 * k - 1, parent |-> id]
         IN FlatTree(kinds, k + 1,
                     IF kinds[k].named THEN nodes \o << node, child >>
                     ELSE Append(nodes, node))

FlatTrees(cls) ==
    { FlatTree(kinds, 1, << >>) :
        kinds \in UNION { [1..n -> UnitKinds(cls)] : n \in 0..MaxUnits } }

\* The suffixes of the files whose units are split.
SplitSuffixes == {".c", ".py", ".ts"}

\* What a file found on disk holds: text that is no slice of the source.
OldText == << -1 >>

\* The named-unit files found on disk: none, or one called by the text of
\* byte 0 (in either layout).
FilesBefore ==
    { NoFiles,
      [p \in { real_file_name(TRUE, UnitName(SourceSlice(0, 1))),
               real_file_name(FALSE, UnitName(SourceSlice(0, 1))) } |-> OldText] }

\* get_class_for_file (or a client) has built the unit of one file.
InitSplit ==
    /\ pc = "parsed"
    /\ remaining = 0
    /\ visited = 1
    /\ suffix \in SplitSuffixes
    /\ rootOK = {get_key_from_value(suffix)}
    /\ tree \in FlatTrees(SSSFClassMappings[get_key_from_value(suffix)])
    /\ nodeCap = Len(tree)
    /\ unit = Instantiate(NewUnit(SSSFClassMappings[get_key_from_value(suffix)],
                                  get_key_from_value(suffix))).u
    /\ calls = << >>
    /\ last = "init"
    /\ gcf = "returned"
    /\ raised = None
    /\ sp = NoSplitter
    /\ fs \in FilesBefore
    /\ unitDir \in BOOLEAN
    /\ writes = << >>
    /\ splits = 0
    /\ sweep = NoSweep

NewSplitterStep ==
    \E cls \in SplitterClasses, destination \in {"dir", "not a dir", None},
       bound \in BOOLEAN, use_subdirectories \in BOOLEAN :
        NewSplitter(cls, destination, bound, use_subdirectories)

NextSplit ==
    \/ GetFileSplitterStep
    \/ NewSplitterStep
    \/ SplitFile

SplitSpec == InitSplit /\ [][NextSplit]_vars

\* ------------------------------------------------- one extract_nodes call
\* The nodes handed to extract_nodes: sorted ascending by start_byte, no two
\* of a list sharing a byte.
RECURSIVE NodeLists(_, _)
NodeLists(from, id) ==
    {<< >>} \cup
    UNION { { << [id |-> id, start_byte |-> r[1], end_byte |-> r[2]] >> \o rest :
                rest \in NodeLists(r[2], id + 1) } :
            r \in { q \in (from..MaxSweepByte) \X (from..MaxSweepByte) : q[1] < q[2] } }

InitSweep ==
    /\ pc = "extract_nodes"
    /\ remaining = 0
    /\ visited = 0
    /\ suffix = None
    /\ rootOK = {}
    /\ tree = << >>
    /\ nodeCap = 0
    /\ unit = NoUnit
    /\ calls = << >>
    /\ last = "init"
    /\ gcf = "-"
    /\ raised = None
    /\ sp = NoSplitter
    /\ fs = NoFiles
    /\ unitDir = TRUE
    /\ writes = << >>
    /\ splits = 0
    /\ \E child_nodes \in NodeLists(0, 1), parent_nodes \in NodeLists(0, 1) :
         sweep = [phase |-> "while", child_nodes |-> child_nodes,
                  parent_nodes |-> parent_nodes, st |-> SweepStart,
                  result |-> << << >>, << >> >>]

\* One iteration of the while loop of extract_nodes.
SweepIterate ==
    /\ pc = "extract_nodes"
    /\ sweep.phase = "while"
    /\ SweepRunning(sweep.child_nodes, sweep.parent_nodes, sweep.st)
    /\ sweep' = [sweep EXCEPT
                    !.st = SweepStep(sweep.child_nodes, sweep.parent_nodes, @)]
    /\ last' = "while"
    /\ UNCHANGED << pc, driverVars, unit, raised, splitVars >>

\* The loop has ended: extract_nodes returns.
SweepReturn ==
    /\ pc = "extract_nodes"
    /\ sweep.phase = "while"
    /\ ~SweepRunning(sweep.child_nodes, sweep.parent_nodes, sweep.st)
    /\ sweep' = [sweep EXCEPT !.phase = "returned",
                              !.result = SweepFinish(sweep.child_nodes, sweep.st)]
    /\ last' = "return"
    /\ UNCHANGED << pc, driverVars, unit, raised, splitVars >>

NextSweep ==
    \/ SweepIterate
    \/ SweepReturn

SweepSpec == InitSweep /\ [][NextSweep]_vars


\* ================================================================ claims
\* The elements of a list, and how many times x occurs in one.
Elements(list) == { list[i] : i \in DOMAIN list }
Occurrences(x, list) == Cardinality({ i \in DOMAIN list : list[i] = x })

\* The nodes of `outer` that node n lies fully inside.
Containers(n, outer) == { i \in DOMAIN outer : is_inside(n, outer[i]) }

SortedByStart(list) ==
    \A i, j \in DOMAIN list : i < j => list[i].start_byte <= list[j].start_byte

\* No two nodes of the list share a byte (half-open ranges).
NonOverlapping(list) ==
    \A i, j \in DOMAIN list :
        i # j => \/ list[i].end_byte <= list[j].start_byte
                 \/ list[j].end_byte <= list[i].start_byte

\* The unit of a class-bearing language has been parsed in full.
ClassUnitParsed == pc = "parsed" /\ IsInstance(unit.cls, "Class")

\* C1: for class-bearing languages, after the full parse, every Method lies
\* inside exactly one node of the Class list and every node left in the
\* Function list lies inside none, whether the Methods were classified by a
\* method node type or split off the Functions by the partition.
C1_MethodsInOneClassFunctionsInNone ==
    ClassUnitParsed =>
        /\ \A i \in DOMAIN unit.methods :
              Cardinality(Containers(unit.methods[i], unit.classes)) = 1
        /\ \A i \in DOMAIN unit.functions :
              Containers(unit.functions[i], unit.classes) = {}


\* Where x stands in a list that holds it.
PositionIn(x, list) == CHOOSE k \in DOMAIN list : list[k] = x

\* The list keeps the relative order its nodes have in `original`.
KeepsOrderOf(list, original) ==
    \A i, j \in DOMAIN list :
        i < j => PositionIn(list[i], original) < PositionIn(list[j], original)

\* C2: extract_nodes hands back two lists that split the candidate list: every
\* candidate is in exactly one of them, exactly once, nothing else is in
\* them, and each keeps the candidates' order.
C2_PartitionSplitsCandidatesInOrder ==
    sweep.phase = "returned" =>
        LET contained == sweep.result[1]
            remaining_nodes == sweep.result[2]
        IN  /\ \A i \in DOMAIN sweep.child_nodes :
                  Occurrences(sweep.child_nodes[i], contained)
                    + Occurrences(sweep.child_nodes[i], remaining_nodes) = 1
            /\ Elements(contained) \cup Elements(remaining_nodes)
                  \subseteq Elements(sweep.child_nodes)
            /\ KeepsOrderOf(contained, sweep.child_nodes)
            /\ KeepsOrderOf(remaining_nodes, sweep.child_nodes)

\* extract_nodes has returned a contained node and candidates the loop never
\* came to.
C2_Witness ==
    /\ sweep.phase = "returned"
    /\ sweep.result[1] # << >>
    /\ sweep.st.child_index <= Len(sweep.child_nodes)
    /\ Len(sweep.result[2]) >= 2

\* The category lists of a unit.
CategoryLists(u) ==
    << u.imports, u.literals, u.comments, u.functions, u.subfunctions,
       u.classes, u.methods, u.interfaces >>

\* C3: after parsing, every category list is sorted ascending by start
\* position and no two of its nodes overlap, the comments of a Python unit
\* (docstrings added) and the subfunctions included.
C3_CategoryListsSortedNonOverlapping ==
    pc = "parsed" =>
        \A k \in DOMAIN CategoryLists(unit) :
            /\ SortedByStart(CategoryLists(unit)[k])
            /\ NonOverlapping(CategoryLists(unit)[k])


\* The lists a layer's parse tests before anything else; the Plain layer's
\* parse tests none.
OwnListsNonEmpty(u) ==
    CASE BaseLayer(u.cls) = "Plain"     -> FALSE
      [] BaseLayer(u.cls) = "Function"  -> u.functions # << >> \/ u.subfunctions # << >>
      [] BaseLayer(u.cls) = "Class"     -> u.methods # << >> \/ u.classes # << >>
      [] OTHER                          -> u.interfaces # << >>

\* Some category list of the unit holds a node.
Populated(u) == \E k \in DOMAIN CategoryLists(u) : CategoryLists(u)[k] # << >>

\* parse() came back at once: it entered the unit's own layer and ran
\* nothing, neither a classification nor the parent layer's parse.
ReturnsAtOnce(c) == Len(c) = 1

\* C4 as stated: parse() called again on a unit with populated category
\* lists changes no list, classifies nothing again and does not enter the
\* parent layer's parse, whatever the unit's layer.
C4_ReparseOfPopulatedUnitIsNoOp ==
    [][(last' = "parse" /\ Populated(unit))
          => (unit' = unit /\ ReturnsAtOnce(calls'))]_vars

\* C4, amended: parse() called again is such a no-op when the lists the
\* unit's own layer introduces hold a node (functions or subfunctions;
\* methods or classes; interfaces); the Plain layer's parse always runs
\* again; and a parse that runs again leaves every list but the comments as
\* it was.
C4_ReparseIsNoOpOnceOwnListsNonEmpty ==
    [][last' = "parse"
          => /\ OwnListsNonEmpty(unit) => unit' = unit /\ ReturnsAtOnce(calls')
             /\ ~OwnListsNonEmpty(unit) => ~ReturnsAtOnce(calls')
             /\ unit' = [unit EXCEPT !.comments = unit'.comments]]_vars

\* parse() was called again on a unit whose own layer's lists held a node.
C4_Witness ==
    /\ last = "parse"
    /\ OwnListsNonEmpty(unit)
    /\ ReturnsAtOnce(calls)


\* The languages of the primary and of the fallback class for the file the
\* driver is at.
PrimaryLanguage == get_key_from_value(suffix)
FallbackLanguage ==
    IF PrimaryLanguage = None THEN None ELSE SSLanguageMappings[PrimaryLanguage].alt

\* get_class_for_file has ended for a readable file that the primary
\* language's parser fails on and the fallback language's parser parses.
FallbackWouldParse ==
    /\ gcf \notin {"-", "OSError", "SSNoLanguageFound"}
    /\ PrimaryLanguage \notin rootOK
    /\ FallbackLanguage # None
    /\ FallbackLanguage \in rootOK

\* C5: when parsing under the primary language fails with a parse failure
\* and parsing under the fallback language succeeds, get_class_for_file
\* returns the fallback language's unit and no error surfaces.
C5_FallbackSuccessReturnsFallbackUnit ==
    FallbackWouldParse =>
        /\ gcf = "returned"
        /\ unit.language = FallbackLanguage

\* C6: the batch driver never aborts: no exception leaves process_file, so
\* every input that remains is still visited.
C6_DriverNeverAborts == pc # "crashed"

\* The file a named unit is written to, and the files of the two aggregates.
UnitPath(s, item) ==
    real_file_name(s.use_subdirectories, UnitName(get_node_name(item)))
RolePath(s, item_name) == real_file_name(s.use_subdirectories, RoleName(item_name))

AllNamed(items) == \A i \in DOMAIN items : Children(items[i]) # << >>

\* The first split_file call of a session has ended, on a splitter with a
\* destination whose unit directory is there.
FirstSplitDone ==
    /\ last = "split_file"
    /\ splits = 1
    /\ sp.destination_directory = "dir"
    /\ unitDir

\* The file of one of the unit's functions was on disk before the split.
FunctionFileExisted ==
    \E i \in DOMAIN unit.functions :
        /\ UnitPath(sp, unit.functions[i]) \in DOMAIN fs
        /\ fs[UnitPath(sp, unit.functions[i])] = OldText

\* C7: when the file of a named unit is already there, only that unit's
\* write is given up: the other named units are still written and the main
\* aggregator is still written.
C7_ExistingUnitFileAbortsOnlyThatUnit ==
    (/\ FirstSplitDone
     /\ sp.cls # "SSFileSplitter"
     /\ AllNamed(unit.functions)
     /\ FunctionFileExisted)
      => /\ \A i \in DOMAIN unit.functions :
                UnitPath(sp, unit.functions[i]) \in DOMAIN fs
         /\ main_file \in DOMAIN fs

\* What the main aggregator holds, and the unit files the split_file call
\* that just ended has written.
MainContent == IF main_file \in DOMAIN fs THEN fs[main_file] ELSE << >>
EmittedUnitFiles == Elements(writes) \ {main_file}

\* The import statement names the written file p.
StatementNames(statement, p) ==
    /\ statement.text = "import ./"
    /\ statement.filename.name = p.name

\* C8: when split_file returns normally, the main aggregator holds one
\* rendered import statement for every unit file the split has written.
C8_AggregatorHoldsStatementPerUnitFile ==
    (last = "split_file" /\ raised = None) =>
        /\ Len(MainContent) = Cardinality(EmittedUnitFiles)
        /\ \A p \in EmittedUnitFiles :
              \E i \in DOMAIN MainContent : StatementNames(MainContent[i], p)

\* The files written for a list of nodes, in order.
UnitPaths(s, items) == [i \in DOMAIN items |-> UnitPath(s, items[i])]
RolePaths(s, items, item_name) == [i \in DOMAIN items |-> RolePath(s, item_name)]

\* The writes split_file is to make for a unit, in order.
EmissionOrder(s, u) ==
    RolePaths(s, u.imports, "imports") \o RolePaths(s, u.literals, "literals")
      \o (IF IsInstance(u.cls, "Function") THEN UnitPaths(s, u.functions) ELSE << >>)
      \o (IF IsInstance(u.cls, "Class") THEN UnitPaths(s, u.classes) ELSE << >>)
      \o (IF IsInstance(u.cls, "Interface") THEN UnitPaths(s, u.interfaces) ELSE << >>)

\* The unit files written by the split_file call that just ended, in order.
UnitWrites ==
    LET IsUnitFile(p) == p # main_file IN SelectSeq(writes, IsUnitFile)

\* C9: get_file_splitter picks for every unit the splitter of the unit's own
\* layer, and split_file writes, in this order, the imports, the literals,
\* the functions, the classes of a class-bearing unit and the interfaces of
\* an interface-bearing unit, so that no populated category is skipped.
C9_OwnLayerSplitterWritesEveryCategory ==
    /\ pc = "parsed" =>
          SplitterLayer(get_file_splitter(unit.cls)) = BaseLayer(unit.cls)
    /\ (FirstSplitDone /\ raised = None
          /\ SplitterLayer(sp.cls) = BaseLayer(unit.cls))
          => UnitWrites = EmissionOrder(sp, unit)

\* The texts of a list of nodes, one after the other.
RECURSIVE Concatenation(_)
Concatenation(items) ==
    IF items = << >> THEN << >>
    ELSE print_source(Head(items)) \o Concatenation(Tail(items))

HoldsAllOf(s, items, item_name) ==
    items # << >> =>
        /\ RolePath(s, item_name) \in DOMAIN fs
        /\ fs[RolePath(s, item_name)] = Concatenation(items)

\* C10: after split_file the imports aggregate file holds the texts of all
\* import nodes of the unit, one after the other, and the literals
\* aggregate file those of all its literal nodes.
C10_AggregateFilesHoldAllNodes ==
    FirstSplitDone =>
        /\ HoldsAllOf(sp, unit.imports, "imports")
        /\ HoldsAllOf(sp, unit.literals, "literals")


\* The named units of a unit: its functions, classes and interfaces.
NamedUnits(u) == u.functions \o u.classes \o u.interfaces

\* Nothing that was on disk before the session is there.
NoFileFromBefore == \A p \in DOMAIN fs \ {main_file} : fs[p] # OldText

\* The role files of the unit's imports and literals are on disk.
RoleFilesWritten(files, s, u) ==
    /\ u.imports # << >> => RolePath(s, "imports") \in DOMAIN files
    /\ u.literals # << >> => RolePath(s, "literals") \in DOMAIN files

\* C11: a unit with at least one named unit is split twice, by the splitter
\* of its own layer, into the same, at first empty, destination: the first
\* run ends without error, the
\* second fails because a named unit's file is already there, and both runs
\* write the imports file, the literals file and the main file.
C11_SecondSplitFailsOnExistingUnitFile ==
    [][(/\ last = "split_file" /\ last' = "split_file"
        /\ splits' = 2
        /\ sp.destination_directory = "dir"
        /\ unitDir
        /\ NoFileFromBefore
        /\ SplitterLayer(sp.cls) = BaseLayer(unit.cls)
        /\ NamedUnits(unit) # << >>
        /\ AllNamed(NamedUnits(unit)))
          => /\ raised = None
             /\ raised' = "ValueError(already exists)"
             /\ RoleFilesWritten(fs, sp, unit)
             /\ RoleFilesWritten(fs', sp, unit)
             /\ main_file \in DOMAIN fs /\ main_file \in DOMAIN fs']_vars


\* get_class_for_file has ended for a readable file that the primary
\* language's parser fails on and for which the construction of the
\* fallback language's unit fails too, at its extension check or its parser.
FallbackFails ==
    /\ gcf \notin {"-", "OSError", "SSNoLanguageFound"}
    /\ PrimaryLanguage \notin rootOK
    /\ FallbackLanguage # None
    /\ \/ SuffixRejected(suffix, FallbackLanguage)
       \/ FallbackLanguage \notin rootOK

\* C12: when parsing under the primary language fails and the retry under
\* the fallback language fails too, for whatever reason, get_class_for_file
\* raises the primary language's parse failure, not the fallback's error.
C12_FallbackFailureSurfacesPrimaryFailure ==
    FallbackFails => gcf = "SSParseFailed"


\* The Literal list as the Plain layer leaves it, and as the Function layer
\* leaves it, for the file the parsed unit was made from.
LiteralsRaw(u) ==
    SSSourceFile_parse(NewUnit(u.cls, u.language)).u.literals
LiteralsAfterFunctionLayer(u) ==
    SSFunctionLanguageSourceFile_parse(NewUnit(u.cls, u.language)).u.literals

\* A unit of a language with functions has been parsed in full.
FunctionUnitParsed == pc = "parsed" /\ IsInstance(unit.cls, "Function")

\* C13: the Literal list of a parsed unit (after the Class layer, where the
\* unit has one) is a subset of the list after the Function layer, which is
\* a subset of the raw list of the Plain layer.
C13_LiteralsOnlyShrink ==
    FunctionUnitParsed =>
        /\ Elements(unit.literals) \subseteq Elements(LiteralsAfterFunctionLayer(unit))
        /\ Elements(LiteralsAfterFunctionLayer(unit)) \subseteq Elements(LiteralsRaw(unit))

\* A class-bearing unit is parsed: the refinement has dropped a literal that
\* lies inside a function or a class, and has left another.
C13_Witness ==
    /\ ClassUnitParsed
    /\ Elements(unit.literals) # Elements(LiteralsRaw(unit))
    /\ unit.literals # << >>


\* C14: extract_nodes, on lists sorted by start and free of overlap (two
\* containers may touch, one ending at the byte the next starts at), puts a
\* candidate among the contained nodes exactly when it lies inside some
\* container, so that no remaining candidate lies inside a container.
C14_ContainedIffInsideSomeContainer ==
    sweep.phase = "returned" =>
        \A i \in DOMAIN sweep.child_nodes :
            sweep.child_nodes[i] \in Elements(sweep.result[1])
              <=> Containers(sweep.child_nodes[i], sweep.parent_nodes) # {}


\* The unit as the Plain layer leaves it, before any refinement.
PlainLayer(u) == SSSourceFile_parse(NewUnit(u.cls, u.language)).u

\* The lists of the Plain layer with the node types each is classified by.
PlainLists(u) ==
    << [list |-> PlainLayer(u).imports,  names |-> TS_IMPORT_NODE_TYPES],
       [list |-> PlainLayer(u).literals, names |-> TS_LITERAL_NODE_TYPES],
       [list |-> PlainLayer(u).comments, names |-> TS_COMMENT_NODE_TYPES] >>

\* The lists classified once over the whole tree by the layers above.
StopAtFirstLists(u) == << u.functions, u.classes, u.methods, u.interfaces >>

\* Node a lies below node b in the tree.
IsDescendant(a, b) == a.id # b.id /\ b.id # RootId /\ b.id \in Ancestors(a.parent)

\* Node n has a proper ancestor below the root with a type in names.
NestedInMatch(n, names) ==
    \E j \in DOMAIN tree : tree[j].type \in names /\ IsDescendant(n, tree[j])

NoneBelowAnother(list) ==
    \A i, j \in DOMAIN list : ~IsDescendant(list[i], list[j])

UnitParsed == pc = "parsed" /\ unit.tree_root

\* C15 as stated: the Plain layer records every node below the root with a
\* type of the category in Imports, Literals and Comments, a node nested in
\* another recorded node of the category included; in Functions, Classes,
\* Methods and Interfaces no recorded node is a descendant of another.
C15_PlainLayerRecordsEveryMatchingNode ==
    UnitParsed =>
        /\ \A k \in DOMAIN PlainLists(unit) : \A i \in DOMAIN tree :
               tree[i].type \in PlainLists(unit)[k].names
                 => tree[i] \in Elements(PlainLists(unit)[k].list)
        /\ \A k \in DOMAIN StopAtFirstLists(unit) :
               NoneBelowAnother(StopAtFirstLists(unit)[k])

\* C15: the Plain layer records in Imports, Literals and Comments exactly the
\* nodes below the root with a type of the category and no ancestor of such a
\* type, so a matching node nested in a recorded one is left out; and in none
\* of these lists, nor in Functions, Classes, Methods and Interfaces, is a
\* recorded node a descendant of another.
C15_PlainLayerRecordsOutermostMatches ==
    UnitParsed =>
        /\ \A k \in DOMAIN PlainLists(unit) :
             /\ \A i \in DOMAIN tree :
                  tree[i] \in Elements(PlainLists(unit)[k].list)
                    <=> /\ tree[i].type \in PlainLists(unit)[k].names
                        /\ ~NestedInMatch(tree[i], PlainLists(unit)[k].names)
             /\ Elements(PlainLists(unit)[k].list) \subseteq Elements(tree)
             /\ NoneBelowAnother(PlainLists(unit)[k].list)
        /\ \A k \in DOMAIN StopAtFirstLists(unit) :
               NoneBelowAnother(StopAtFirstLists(unit)[k])

\* A parsed unit whose tree holds a literal nested in a recorded literal.
C15_Witness ==
    /\ UnitParsed
    /\ \E i, j \in DOMAIN tree :
          /\ tree[i].type \in TS_LITERAL_NODE_TYPES
          /\ tree[j] \in Elements(PlainLayer(unit).literals)
          /\ IsDescendant(tree[i], tree[j])


\* C16: once a unit is parsed no node is in two of its category lists; the
\* Function, Subfunction and Method lists, classified by the same node types
\* where Methods are split off the Functions, are pairwise disjoint, and a
\* node the partition moved to Methods is no longer in Functions.
C16_NoNodeInTwoCategoryLists ==
    UnitParsed =>
        \A k, l \in DOMAIN CategoryLists(unit) :
            k # l => Elements(CategoryLists(unit)[k])
                       \cap Elements(CategoryLists(unit)[l]) = {}

\* A parsed class unit with no node of a method type, whose partition moved a
\* function to Methods and left another in Functions.
C16_Witness ==
    /\ ClassUnitParsed
    /\ unit.tree_root
    /\ \A i \in DOMAIN tree : tree[i].type \notin TS_METHOD_NODE_TYPES
    /\ unit.methods # << >>
    /\ unit.functions # << >>

====
